---- MODULE Spec2Model ----
(***************************************************************************)
(* A model of src/main.py (WordPressSEOOptimizer).                         *)
(*                                                                         *)
(* Python strings are sequences of one-character strings.  Python values   *)
(* that may be a string, a number or None are records [t, s] (see Str,     *)
(* None, Num).  The generation backend and the HTTP server are the         *)
(* environment: every response they can give is drawn with \E.             *)
(***************************************************************************)
EXTENDS Integers, Sequences, FiniteSets, TLC

VARIABLES
    pc,           \* position of run(): "fetch", "process", "done", or "fetch raised", "item raised"
    remote,       \* the listing the content API serves: page number -> response
    posts,        \* get_all_published_posts: the local list `posts`
    page,         \* get_all_published_posts: the local `page`
    fetched,      \* the pages requested so far, in order
    idx,          \* run(): index of the next post of the for loop (1-based)
    cms,          \* the CMS's stored meta of each post: post id -> stored rank_math_data
    report_data,  \* self.report_data
    log_data,     \* self.log_data
    last,         \* what the latest process_post call did (requests, locals)
    files,        \* the files written by generate_report / generate_error_log
    call          \* a single call of a pure method: inputs and result

vars == <<pc, remote, posts, page, fetched, idx, cms, report_data, log_data, last, files, call>>

(***************************************************************************)
(* Bounds of the model.                                                    *)
(***************************************************************************)
MaxPosts == 2      \* most posts the remote listing of a run holds
MaxPages == 3      \* most pages the remote listing of a paginated fetch holds
MaxStr == 2        \* longest title / keyword / response drawn for update_post_title
MaxPad == 2        \* most whitespace characters around a description response
MaxExtra == 3      \* description bodies run up to max_length + MaxExtra characters

(***************************************************************************)
(* Program constants.                                                      *)
(***************************************************************************)
max_length == 160
per_page == 100

(***************************************************************************)
(* Strings.                                                                *)
(***************************************************************************)
Whitespace == {" ", "\t", "\n"}

UpperCase == <<"A","B","C","D","E","F","G","H","I","J","K","L","M",
               "N","O","P","Q","R","S","T","U","V","W","X","Y","Z">>
LowerCase == <<"a","b","c","d","e","f","g","h","i","j","k","l","m",
               "n","o","p","q","r","s","t","u","v","w","x","y","z">>

\* str.lower() on one character
LowerChar(c) ==
    IF \E i \in 1..Len(UpperCase) : UpperCase[i] = c
    THEN LowerCase[CHOOSE i \in 1..Len(UpperCase) : UpperCase[i] = c]
    ELSE c

\* str.lower()
Lower(s) == [i \in 1..Len(s) |-> LowerChar(s[i])]

\* Python's `needle in hay` on strings
Contains(needle, hay) ==
    \E i \in 0..(Len(hay) - Len(needle)) :
        \A j \in 1..Len(needle) : hay[i + j] = needle[j]

RECURSIVE LStrip(_)
LStrip(s) == IF s # <<>> /\ Head(s) \in Whitespace THEN LStrip(Tail(s)) ELSE s

RECURSIVE RStrip(_)
RStrip(s) ==
    IF s # <<>> /\ s[Len(s)] \in Whitespace THEN RStrip(SubSeq(s, 1, Len(s) - 1)) ELSE s

\* str.strip()
Strip(s) == RStrip(LStrip(s))

\* s[:n] for n >= 0
Prefix(s, n) == SubSeq(s, 1, IF n < Len(s) THEN n ELSE Len(s))

Ellipsis == <<".", ".", ".">>

(***************************************************************************)
(* Python values: a string, a number (non-zero), or None.                  *)
(***************************************************************************)
Str(s) == [t |-> "str", s |-> s]
None == [t |-> "none", s |-> <<>>]
Num == [t |-> "num", s |-> <<>>]

\* bool(v)
Truthy(v) == (v.t = "str" /\ v.s # <<>>) \/ v.t = "num"

(***************************************************************************)
(* The generation backend's answer to generate_content: it raises, or it   *)
(* returns a response whose .text is `text`.                               *)
(***************************************************************************)
Raises == [raises |-> TRUE, text |-> <<>>]
Text(s) == [raises |-> FALSE, text |-> s]

\* a truncation that keeps max_length characters before the ellipsis
TruncateKeepsWholeLength(meta_description) ==
    IF Len(meta_description) > max_length
    THEN Prefix(meta_description, max_length) \o Ellipsis
    ELSE meta_description

(***************************************************************************)
(* generate_meta_description, lines 102-113: the try block.  The prompt    *)
(* (lines 78-100) only feeds the backend, whose answer is `resp`.          *)
(***************************************************************************)
Truncate(meta_description) ==
    IF Len(meta_description) > max_length
    THEN Prefix(meta_description, max_length - 3) \o Ellipsis
    ELSE meta_description

generate_meta_description(resp) ==
    IF resp.raises THEN None ELSE Str(Truncate(Strip(resp.text)))

(***************************************************************************)
(* generate_keyword, lines 136-147.                                        *)
(***************************************************************************)
\* keyword.split(":", 1)[1] when ":" is in keyword
AfterFirstColon(s) ==
    LET i == CHOOSE k \in 1..Len(s) : s[k] = ":" /\ \A j \in 1..(k - 1) : s[j] # ":"
    IN  SubSeq(s, i + 1, Len(s))

generate_keyword(resp) ==
    IF resp.raises THEN None
    ELSE LET keyword == Strip(resp.text)
         IN  IF Contains(<<":">>, keyword)
             THEN Str(Strip(AfterFirstColon(keyword)))
             ELSE Str(keyword)

\* a title check that accepts every suggested title
TitleAlwaysVerified(keyword, new_title) == TRUE

(***************************************************************************)
(* update_post_title, lines 149-177.  The result says whether the backend  *)
(* was called.                                                             *)
(***************************************************************************)
TitleVerified(keyword, new_title) == Contains(Lower(keyword), Lower(new_title))

update_post_title(title, keyword, resp) ==
    IF Contains(Lower(keyword), Lower(title))
    THEN [title |-> title, called |-> FALSE]
    ELSE IF resp.raises
         THEN [title |-> title, called |-> TRUE]
         ELSE LET new_title == Strip(resp.text)
              IN  IF ~TitleVerified(keyword, new_title)
                  THEN [title |-> title, called |-> TRUE]
                  ELSE [title |-> new_title, called |-> TRUE]

(***************************************************************************)
(* update_first_paragraph, lines 179-214.                                  *)
(***************************************************************************)
\* the least index >= from at which sub occurs in s, or 0
IndexOf(sub, s, from) ==
    LET hits == {i \in from..(Len(s) - Len(sub) + 1) :
                    \A j \in 1..Len(sub) : s[i + j - 1] = sub[j]}
    IN  IF hits = {} THEN 0 ELSE CHOOSE i \in hits : \A k \in hits : i <= k

\* re.sub(r'<[^>]+>', '', s)
RECURSIVE StripTags(_)
StripTags(s) ==
    IF s = <<>> THEN <<>>
    ELSE LET close == IndexOf(<<">">>, s, 2)
         IN  IF Head(s) = "<" /\ close >= 3
             THEN StripTags(SubSeq(s, close + 1, Len(s)))
             ELSE <<Head(s)>> \o StripTags(Tail(s))

\* str.replace(old, new) for old # ''
RECURSIVE ReplaceAll(_, _, _)
ReplaceAll(s, old, new) ==
    IF Len(s) < Len(old) THEN s
    ELSE IF SubSeq(s, 1, Len(old)) = old
         THEN new \o ReplaceAll(SubSeq(s, Len(old) + 1, Len(s)), old, new)
         ELSE <<Head(s)>> \o ReplaceAll(Tail(s), old, new)

\* str.replace('', new): new before every character and at the end
RECURSIVE Intersperse(_, _)
Intersperse(s, new) ==
    IF s = <<>> THEN new ELSE new \o <<Head(s)>> \o Intersperse(Tail(s), new)

Replace(s, old, new) ==
    IF old = <<>> THEN Intersperse(s, new) ELSE ReplaceAll(s, old, new)

POpen == <<"<", "p", ">">>
PClose == <<"<", "/", "p", ">">>

\* the result says whether the backend was called
update_first_paragraph(content, keyword, resp) ==
    LET open == IndexOf(POpen, content, 1)
        close == IF open = 0 THEN 0 ELSE IndexOf(PClose, content, open + 3)
    IN  IF open = 0 \/ close = 0
        THEN [content |-> content, called |-> FALSE]
        ELSE LET first_para == SubSeq(content, open + 3, close - 1)
                 first_para_clean == StripTags(first_para)
             IN  IF Contains(Lower(keyword), Lower(first_para_clean))
                 THEN [content |-> content, called |-> FALSE]
                 ELSE IF resp.raises
                      THEN [content |-> content, called |-> TRUE]
                      ELSE [content |-> Replace(content, first_para, Strip(resp.text)),
                            called |-> TRUE]

(***************************************************************************)
(* The schema-B bag (rank_math_data) as a JSON value: a dict with some of  *)
(* the keys description, focus_keyword and others; a non-dict value (a     *)
(* JSON list); or None.                                                    *)
(***************************************************************************)
Dict(has_d, d, has_k, k, other) ==
    [t |-> "dict", has_description |-> has_d, description |-> d,
     has_focus_keyword |-> has_k, focus_keyword |-> k, other |-> other]
EmptyDict == Dict(FALSE, None, FALSE, None, FALSE)
NonDict == [EmptyDict EXCEPT !.t = "list"]
NoBag == [EmptyDict EXCEPT !.t = "none"]
InvalidJson == [EmptyDict EXCEPT !.t = "invalid"]

\* bool(rank_math_data)
BagTruthy(b) ==
    \/ b.t = "list"
    \/ b.t = "dict" /\ (b.has_description \/ b.has_focus_keyword \/ b.other)

(***************************************************************************)
(* What the CMS stores under meta.rank_math_data of a post: nothing, a     *)
(* string (JSON text) or a JSON value.                                     *)
(***************************************************************************)
Missing == [form |-> "missing", value |-> NoBag]
json_dumps(b) == [form |-> "string", value |-> b]
Object(b) == [form |-> "object", value |-> b]

(***************************************************************************)
(* HTTP: a request raises (connection error) or returns a status.          *)
(***************************************************************************)
Http(status) == [raises |-> FALSE, status |-> status]
ConnectionError == [raises |-> TRUE, status |-> 0]
HttpOutcomes == {Http(200), Http(500), ConnectionError}

(***************************************************************************)
(* get_rank_math_data, lines 216-244.                                      *)
(***************************************************************************)
get_rank_math_data(stored, r) ==
    IF r.raises THEN NoBag
    ELSE IF r.status # 200 THEN NoBag
    ELSE IF stored.form = "missing" THEN NoBag
    ELSE IF stored.form = "string"
         THEN IF stored.value.t = "invalid" THEN NoBag ELSE stored.value
         ELSE stored.value

(***************************************************************************)
(* Requests sent to the content API, and the update payload of a POST.     *)
(***************************************************************************)
EmptyUpdate ==
    [has_title |-> FALSE, title |-> <<>>, has_content |-> FALSE, content |-> <<>>,
     has_meta |-> FALSE, meta |-> Missing]
MetaUpdate(b) == [EmptyUpdate EXCEPT !.has_meta = TRUE, !.meta = json_dumps(b)]

\* a request as sent: the trace of requests does not hold the answers
Get(post_id) == [method |-> "GET", post_id |-> post_id, json |-> EmptyUpdate]
Post(post_id, json) == [method |-> "POST", post_id |-> post_id, json |-> json]

\* what the CMS stores after a request: a POST answered 200 carrying meta replaces it
StoredAfter(stored, json, r) ==
    IF ~r.raises /\ r.status = 200 /\ json.has_meta THEN json.meta ELSE stored

(***************************************************************************)
(* log, lines 36-39: a Log Line.                                           *)
(***************************************************************************)
LogLine(post_id, text, arg) ==
    [post_id |-> post_id, message |-> [text |-> text, arg |-> arg]]

(***************************************************************************)
(* The backend's and the server's answers the model draws.                 *)
(***************************************************************************)
KeywordResponses ==
    {Raises, Text(<<" ">>), Text(<<"T", ":", " ", "K", "w", " ">>)}
DescriptionResponses ==
    {Raises, Text(<<" ">>), Text(<<"k", "w", " ", "d", " ">>)}
TitleResponses ==
    {Raises, Text(<<"x">>), Text(<<"K", "W", " ", "t">>)}
ParagraphResponses ==
    {Raises, Text(<<"k", "w", " ", "p">>)}

(***************************************************************************)
(* process_post, lines 274-403.  The locals of one call are a record; a    *)
(* step of the method maps the locals to the set of locals it can leave,   *)
(* one for each answer of the calls it makes.  `raised` is an exception    *)
(* on its way to the handler of line 400.  Beside the locals the record    *)
(* keeps the requests sent, the answers drawn (`answers`) and what lines   *)
(* 297-312 found (`existing`).                                             *)
(***************************************************************************)
\* lines 276-279: the subscripts that a missing key fails
HasAllKeys(post) == {"id", "title", "content", "slug"} \subseteq post.keys

\* lines 281-295
Locals(post, stored) ==
    [post_id |-> post.id,
     report_entry |-> [post_id |-> post.id, post_slug |-> post.slug,
                       original_title |-> post.title, updated_title |-> None,
                       meta_description_added |-> FALSE, keyword_added |-> FALSE],
     meta_description |-> None, keyword |-> None,
     meta_description_exists |-> FALSE, keyword_exists |-> FALSE,
     rank_math_data |-> NoBag, update_data |-> EmptyUpdate,
     raised |-> FALSE, appended |-> FALSE,
     logs |-> <<>>, requests |-> <<>>, stored |-> stored,
     existing |-> [meta_description |-> None, meta_description_exists |-> FALSE,
                   keyword |-> None, keyword_exists |-> FALSE, rank_math_data |-> NoBag],
     answers |-> [keyword |-> <<>>, keyword_write |-> <<>>,
                  description |-> <<>>, update_write |-> <<>>]]

Logged(L, text, arg) == [L EXCEPT !.logs = Append(@, LogLine(L.post_id, text, arg))]

\* lines 297-300: schema A
YoastDescription(L, post) ==
    IF post.yoast.present /\ post.yoast.has_description
    THEN [L EXCEPT !.meta_description = post.yoast.description,
                   !.meta_description_exists = Truthy(post.yoast.description)]
    ELSE L

\* reading the bag with schema B's description taking precedence
RankMathFieldsFirst(L, b) ==
    IF ~BagTruthy(b) THEN L
    ELSE IF b.t # "dict" THEN [L EXCEPT !.raised = TRUE]
    ELSE LET L1 == IF b.has_description
                   THEN [L EXCEPT !.meta_description = b.description,
                                  !.meta_description_exists = Truthy(b.description)]
                   ELSE L
             keyword == IF b.has_focus_keyword THEN b.focus_keyword ELSE Str(<<>>)
         IN  [L1 EXCEPT !.keyword = keyword, !.keyword_exists = Truthy(keyword)]

\* lines 304-312: schema B, given the bag read at line 303
RankMathFields(L, b) ==
    IF ~BagTruthy(b) THEN L
    ELSE IF b.t # "dict" THEN [L EXCEPT !.raised = TRUE]
    ELSE LET L1 == IF ~L.meta_description_exists /\ b.has_description
                   THEN [L EXCEPT !.meta_description = b.description,
                                  !.meta_description_exists = Truthy(b.description)]
                   ELSE L
             keyword == IF b.has_focus_keyword THEN b.focus_keyword ELSE Str(<<>>)
         IN  [L1 EXCEPT !.keyword = keyword, !.keyword_exists = Truthy(keyword)]

\* lines 291-312
ReadExisting(L, post) ==
    { LET b == get_rank_math_data(L.stored, r)
          L1 == YoastDescription(L, post)
          L2 == [L1 EXCEPT !.rank_math_data = b,
                           !.requests = Append(@, Get(L.post_id))]
          L3 == RankMathFields(L2, b)
      IN  [L3 EXCEPT !.existing =
                  [meta_description |-> L3.meta_description,
                   meta_description_exists |-> L3.meta_description_exists,
                   keyword |-> L3.keyword, keyword_exists |-> L3.keyword_exists,
                   rank_math_data |-> b]]
      : r \in HttpOutcomes }

(***************************************************************************)
(* update_rank_math_keyword, lines 246-272: the set of <<success, locals>> *)
(***************************************************************************)
KeywordBag(b, keyword) ==
    [(IF b.t = "none" THEN EmptyDict ELSE b)
        EXCEPT !.has_focus_keyword = TRUE, !.focus_keyword = Str(keyword)]

update_rank_math_keyword(L, keyword) ==
    UNION {
      LET b == get_rank_math_data(L.stored, r)
          L1 == [L EXCEPT !.requests = Append(@, Get(L.post_id))]
      IN  IF b.t = "list"
          THEN {<<FALSE, L1>>}
          ELSE LET json == MetaUpdate(KeywordBag(b, keyword))
               IN  { <<~w.raises /\ w.status = 200,
                       [L1 EXCEPT !.requests = Append(@, Post(L.post_id, json)),
                                  !.stored = StoredAfter(@, json, w),
                                  !.answers.keyword_write = <<w>>]>>
                     : w \in HttpOutcomes }
      : r \in HttpOutcomes }

\* lines 314-328
KeywordStep(L, post) ==
    IF L.raised \/ L.keyword_exists THEN {L}
    ELSE UNION {
      LET keyword == generate_keyword(g)
          L1 == [Logged(L, "No keyword found, generating one...", <<>>)
                    EXCEPT !.keyword = keyword, !.answers.keyword = <<g>>]
      IN  IF ~Truthy(keyword) THEN {L1}
          ELSE { IF u[1]
                 THEN [Logged(u[2], "Updated Rank Math keyword", <<>>)
                          EXCEPT !.report_entry.keyword_added = TRUE,
                                 !.keyword_exists = TRUE]
                 ELSE Logged(u[2], "Failed to update Rank Math keyword", <<>>)
                 : u \in update_rank_math_keyword(
                            Logged(L1, "Generated keyword: ", keyword.s), keyword.s) }
      : g \in KeywordResponses }

\* the call and what follows it, the report entry left unmarked
DescribedUnmarked(L, g, text) ==
    LET meta_description == generate_meta_description(g)
        L1 == [L EXCEPT !.meta_description = meta_description,
                        !.answers.description = <<g>>]
    IN  IF Truthy(meta_description)
        THEN Logged(L1, text, meta_description.s)
        ELSE L1

\* lines 333-337 and 341-345: the call and what follows it
Described(L, g, text) ==
    LET meta_description == generate_meta_description(g)
        L1 == [L EXCEPT !.meta_description = meta_description,
                        !.answers.description = <<g>>]
    IN  IF Truthy(meta_description)
        THEN [Logged(L1, text, meta_description.s)
                 EXCEPT !.report_entry.meta_description_added = TRUE]
        ELSE L1

\* lines 330-345
DescriptionStep(L, post) ==
    IF L.raised THEN {L}
    ELSE IF ~L.meta_description_exists
    THEN { Described(Logged(L, "No meta description found, generating one...", <<>>),
                     g, "Generated meta description: ")
           : g \in DescriptionResponses }
    ELSE IF ~L.keyword_exists THEN {L}
    ELSE IF L.meta_description.t # "str" \/ L.keyword.t # "str"
    THEN {[L EXCEPT !.raised = TRUE]}
    ELSE IF ~Contains(L.keyword.s, Lower(L.meta_description.s))
    THEN { Described(Logged(L, "Meta description exists but doesn't include keyword, regenerating...",
                            L.keyword.s),
                     g, "Updated meta description: ")
           : g \in DescriptionResponses }
    ELSE {L}

\* lines 347-356
TitleStep(L, post) ==
    IF L.raised \/ ~L.keyword_exists THEN {L}
    ELSE IF L.keyword.t # "str" THEN {[L EXCEPT !.raised = TRUE]}
    ELSE IF Contains(Lower(L.keyword.s), Lower(post.title)) THEN {L}
    ELSE { LET new_title == update_post_title(post.title, L.keyword.s, g).title
           IN  IF new_title # post.title
               THEN [Logged(L, "Updated title: ", new_title)
                        EXCEPT !.report_entry.updated_title = Str(new_title)]
               ELSE L
           : g \in TitleResponses }

\* lines 358-369
ContentStep(L, post) ==
    LET L1 == IF ~L.raised /\ Truthy(L.report_entry.updated_title)
              THEN [L EXCEPT !.update_data.has_title = TRUE,
                             !.update_data.title = L.report_entry.updated_title.s]
              ELSE L
    IN  IF L1.raised \/ ~L1.keyword_exists THEN {L1}
        ELSE IF Contains(Lower(L1.keyword.s), Lower(post.content)) THEN {L1}
        ELSE LET silent == update_first_paragraph(post.content, L1.keyword.s, Raises)
             IN  { LET new_content ==
                           update_first_paragraph(post.content, L1.keyword.s, g).content
                   IN  IF new_content # post.content
                       THEN [Logged(L1, "Updated first paragraph to include keyword", <<>>)
                                EXCEPT !.update_data.has_content = TRUE,
                                       !.update_data.content = new_content]
                       ELSE L1
                   : g \in IF silent.called THEN ParagraphResponses ELSE {Raises} }

\* lines 371-379
MergeDescription(L) ==
    LET base == IF BagTruthy(L.rank_math_data) THEN L.rank_math_data ELSE EmptyDict
        b == [base EXCEPT !.has_description = TRUE, !.description = L.meta_description]
    IN  [L EXCEPT !.rank_math_data = b,
                  !.update_data.has_meta = TRUE, !.update_data.meta = json_dumps(b)]

MetaStep(L, post) ==
    IF ~L.raised /\ Truthy(L.meta_description) THEN {MergeDescription(L)} ELSE {L}

\* lines 381-395
SubmitStep(L, post) ==
    IF L.raised \/ L.update_data = EmptyUpdate THEN {L}
    ELSE { LET L1 == [L EXCEPT !.requests = Append(@, Post(L.post_id, L.update_data)),
                               !.stored = StoredAfter(@, L.update_data, w),
                               !.answers.update_write = <<w>>]
           IN  IF w.raises THEN Logged(L1, "Error updating post: ", <<>>)
               ELSE IF w.status = 200 THEN Logged(L1, "Successfully updated post", <<>>)
               ELSE Logged(L1, "Failed to update post: ", <<>>)
           : w \in HttpOutcomes }

\* lines 397-401
AppendStep(L, post) ==
    IF L.raised
    THEN {Logged(L, "Error processing post: ", <<>>)}
    ELSE {[L EXCEPT !.appended = TRUE]}

\* every way one call of process_post on `post` can end: the final locals
process_post(post, stored) ==
    LET A == ReadExisting(Locals(post, stored), post)
        B == UNION {KeywordStep(L, post) : L \in A}
        C == UNION {DescriptionStep(L, post) : L \in B}
        D == UNION {TitleStep(L, post) : L \in C}
        E == UNION {ContentStep(L, post) : L \in D}
        F == UNION {MetaStep(L, post) : L \in E}
        G == UNION {SubmitStep(L, post) : L \in F}
    IN  UNION {AppendStep(L, post) : L \in G}

(***************************************************************************)
(* The posts of the CMS the model draws the remote listing from, and the   *)
(* rank_math_data the CMS stores for each.                                 *)
(***************************************************************************)
NoYoast == [present |-> FALSE, has_description |-> FALSE, description |-> None]
Yoast(d) == [present |-> TRUE, has_description |-> TRUE, description |-> d]

Item(id, title, content, yoast) ==
    [keys |-> {"id", "title", "content", "slug"}, id |-> id, title |-> title,
     content |-> content, slug |-> <<"s">>, yoast |-> yoast]

Kw == <<"k", "w">>
KwD == <<"k", "w", " ", "d">>

\* nothing stored, no description, no keyword; the keyword is in neither title nor body
Bare == Item(1, <<"T", "a">>, <<"<", "p", ">", "a", "<", "/", "p", ">">>, NoYoast)
\* keyword and description stored, the keyword in description, title and body
Done == Item(2, <<"K", "w", " ", "b">>, <<"<", "p", ">", "k", "w", "<", "/", "p", ">">>, NoYoast)
\* a description in schema A and another in schema B; a body without a paragraph
Both == Item(3, <<"k", "w", " ", "c">>, <<"c">>, Yoast(Str(<<"A", " ", "k", "w">>)))
\* schema A's description is the empty string, schema B holds one; the keyword is in
\* the first paragraph's text but not in the body as written
EmptyA == Item(4, <<"K", "W", " ", "d">>,
               <<"<", "p", ">", "<", "b", ">", "k", "<", "/", "b", ">", "w", "<", "/", "p", ">">>,
               Yoast(Str(<<>>)))
\* an item without the key slug
NoSlug == [Item(5, <<"T", "e">>, <<"e">>, NoYoast) EXCEPT !.keys = @ \ {"slug"}]
\* the stored rank_math_data is a JSON list
ListBag == Item(6, <<"k", "w", " ", "f">>, <<"k", "w">>, NoYoast)
\* the stored focus_keyword is a number
NumKeyword == Item(7, <<"k", "w", " ", "g">>, <<"k", "w">>, NoYoast)
\* the stored string is not JSON; schema A's description holds the keyword capitalised;
\* the first paragraph is empty
BadJson == Item(8, <<"k", "w", " ", "h">>, <<"<", "p", ">", "<", "/", "p", ">", "h">>,
                Yoast(Str(<<"K", "w", " ", "D">>)))

Catalog == {Bare, Done, Both, EmptyA, NoSlug, ListBag, NumKeyword, BadJson}

StoredMeta ==
    [id \in {q.id : q \in Catalog} |->
        CASE id = 2 -> json_dumps(Dict(TRUE, Str(KwD), TRUE, Str(Kw), FALSE))
          [] id = 3 -> Object(Dict(TRUE, Str(<<"B">>), TRUE, Str(Kw), TRUE))
          [] id = 4 -> json_dumps(Dict(TRUE, Str(<<"B">>), FALSE, None, FALSE))
          [] id = 6 -> Object(NonDict)
          [] id = 7 -> json_dumps(Dict(FALSE, None, TRUE, Num, FALSE))
          [] id = 8 -> json_dumps(InvalidJson)
          [] OTHER -> Missing]

\* the listings of at most n posts: the endpoint serves the posts in the order of
\* the CMS (here, of their ids)
RECURSIVE Listings(_)
Listings(n) ==
    IF n = 0 THEN {<<>>}
    ELSE LET shorter == Listings(n - 1)
         IN  shorter \cup
             {Append(x[1], x[2]) :
                 x \in {y \in shorter \X Catalog :
                          /\ Len(y[1]) = n - 1
                          /\ \A i \in 1..Len(y[1]) : y[1][i].id < y[2].id}}

(***************************************************************************)
(* The listing endpoint: the answer to the request for one page.           *)
(***************************************************************************)
Page(batch) == [raises |-> FALSE, status |-> 200, batch |-> batch]
PageError(status) == [raises |-> FALSE, status |-> status, batch |-> <<>>]
PageRaises == [raises |-> TRUE, status |-> 0, batch |-> <<>>]

\* a page past the last one the listing holds: the API answers 400
RemotePage(n) == IF n \in DOMAIN remote THEN remote[n] ELSE PageError(400)

\* the items of page n of a paginated listing, `size` of them
Batch(n, size) == [i \in 1..size |-> (n - 1) * per_page + i]

(***************************************************************************)
(* __init__, lines 20-34, and the state of the CMS before run().           *)
(***************************************************************************)
Constructed ==
    /\ pc = "fetch"
    /\ posts = <<>>
    /\ page = 1
    /\ fetched = <<>>
    /\ idx = 1
    /\ cms = StoredMeta
    /\ report_data = <<>>
    /\ log_data = <<>>
    /\ last = <<>>
    /\ files = [report |-> <<>>, log |-> <<>>, written |-> {}]
    /\ call = <<>>

Init ==
    /\ Constructed
    /\ remote \in {<<r>> : r \in {Page(l) : l \in Listings(MaxPosts)}
                                  \cup {PageError(500), PageRaises}}

\* the loop's step on a page answered 200, without the test for a short page
FetchNextNoLastPage(batch) ==
    IF batch = <<>> THEN [posts |-> posts, page |-> page, more |-> FALSE]
    ELSE [posts |-> posts \o batch, page |-> page + 1, more |-> TRUE]

(***************************************************************************)
(* get_all_published_posts, lines 41-74: one iteration of the loop.        *)
(***************************************************************************)
\* lines 63-71: what the loop does with a page answered 200
FetchNext(batch) ==
    IF batch = <<>> THEN [posts |-> posts, page |-> page, more |-> FALSE]
    ELSE [posts |-> posts \o batch, page |-> page + 1, more |-> ~(Len(batch) < per_page)]

get_all_published_posts ==
    /\ pc = "fetch"
    /\ LET response == RemotePage(page)
       IN  /\ fetched' = Append(fetched, page)
           /\ IF response.raises
              THEN pc' = "fetch raised" /\ UNCHANGED <<posts, page>>
              ELSE IF response.status # 200
              THEN pc' = "process" /\ UNCHANGED <<posts, page>>
              ELSE LET n == FetchNext(response.batch)
                   IN  /\ posts' = n.posts
                       /\ page' = n.page
                       /\ pc' = IF n.more THEN "fetch" ELSE "process"
    /\ UNCHANGED <<remote, idx, cms, report_data, log_data, last, files, call>>

(***************************************************************************)
(* run, lines 438-443: one iteration of the for loop, a call of            *)
(* process_post.  A KeyError of lines 276-279 (or of line 440) is outside  *)
(* every try and leaves run().                                             *)
(***************************************************************************)
Recorded(L) == IF L.appended THEN Append(report_data, L.report_entry) ELSE report_data

run_process_post ==
    /\ pc = "process"
    /\ idx <= Len(posts)
    /\ LET post == posts[idx]
       IN  IF ~HasAllKeys(post)
           THEN /\ pc' = "item raised"
                /\ UNCHANGED <<idx, cms, report_data, log_data, last>>
           ELSE \E L \in process_post(post, cms[post.id]) :
                    /\ report_data' = Recorded(L)
                    /\ log_data' = log_data \o L.logs
                    /\ cms' = [cms EXCEPT ![post.id] = L.stored]
                    /\ last' = <<[post |-> post, before |-> cms[post.id], locals |-> L]>>
                    /\ idx' = idx + 1
                    /\ pc' = pc
    /\ UNCHANGED <<remote, posts, page, fetched, files, call>>

(***************************************************************************)
(* run, lines 445-453: generate_report (lines 405-418) writes report_data  *)
(* and generate_error_log (lines 420-426) writes log_data.                 *)
(***************************************************************************)
generate_report == [files EXCEPT !.report = report_data, !.written = @ \cup {"report"}]

generate_error_log(f) == [f EXCEPT !.log = log_data, !.written = @ \cup {"log"}]

run_reports ==
    /\ pc = "process"
    /\ idx > Len(posts)
    /\ files' = generate_error_log(generate_report)
    /\ pc' = "done"
    /\ UNCHANGED <<remote, posts, page, fetched, idx, cms, report_data, log_data, last, call>>

Next ==
    \/ get_all_published_posts
    \/ run_process_post
    \/ run_reports

Spec == Init /\ [][Next]_vars

(***************************************************************************)
(* get_all_published_posts over a paginated listing: every page of         *)
(* 1..MaxPages answers with an error, a connection error, or a batch that  *)
(* is empty, partial or full.                                              *)
(***************************************************************************)
BatchSizes == {0, 1, per_page - 1, per_page}

PageAnswers(n) == {Page(Batch(n, size)) : size \in BatchSizes} \cup {PageError(500), PageRaises}

InitFetch ==
    /\ Constructed
    /\ remote \in {f \in [1..MaxPages -> UNION {PageAnswers(n) : n \in 1..MaxPages}] :
                     \A n \in 1..MaxPages : f[n] \in PageAnswers(n)}

NextFetch == get_all_published_posts

SpecFetch == InitFetch /\ [][NextFetch]_vars /\ WF_vars(NextFetch)

(***************************************************************************)
(* One call of generate_meta_description: the backend's answer is drawn    *)
(* from the responses of every length around max_length, with whitespace   *)
(* around and inside.                                                      *)
(***************************************************************************)
BodyLengths == (0..2) \cup ((max_length - 4)..(max_length + MaxExtra))

BodyShapes == {"letters", "dots", "spaced"}

Body(n, shape) ==
    [i \in 1..n |-> CASE shape = "letters" -> "a"
                      [] shape = "dots" -> "."
                      [] OTHER -> IF i % 2 = 1 THEN "b" ELSE " "]

Pad(n, c) == [i \in 1..n |-> c]

DescriptionAnswers ==
    {Raises} \cup
    {Text(Pad(l, " ") \o Body(n, shape) \o Pad(r, "\n")) :
        l \in 0..MaxPad, r \in 0..MaxPad, n \in BodyLengths, shape \in BodyShapes}

Pending(method, args) ==
    <<[method |-> method, args |-> args, returned |-> FALSE, result |-> None, called |-> FALSE]>>

Idle ==
    /\ pc = "call"
    /\ remote = <<>>
    /\ posts = <<>>
    /\ page = 1
    /\ fetched = <<>>
    /\ idx = 1
    /\ cms = StoredMeta
    /\ report_data = <<>>
    /\ log_data = <<>>
    /\ last = <<>>
    /\ files = [report |-> <<>>, log |-> <<>>, written |-> {}]

InitDescription ==
    /\ Idle
    /\ call \in {Pending("generate_meta_description",
                         [title |-> <<>>, keyword |-> <<>>, resp |-> g]) : g \in DescriptionAnswers}

call_generate_meta_description ==
    /\ pc = "call"
    /\ call[1].method = "generate_meta_description"
    /\ ~call[1].returned
    /\ call' = <<[call[1] EXCEPT !.returned = TRUE,
                                 !.result = generate_meta_description(call[1].args.resp),
                                 !.called = TRUE]>>
    /\ UNCHANGED <<pc, remote, posts, page, fetched, idx, cms, report_data, log_data, last, files>>

NextDescription == call_generate_meta_description

SpecDescription == InitDescription /\ [][NextDescription]_vars

(***************************************************************************)
(* One call of update_post_title: title, keyword and response are every    *)
(* string of at most MaxStr characters over a small alphabet.              *)
(***************************************************************************)
Alphabet == {"k", "K", "x", " "}

Strings(n) == UNION {[1..m -> Alphabet] : m \in 0..n}

TitleAnswers == {Raises} \cup {Text(t) : t \in Strings(MaxStr)}

InitTitle ==
    /\ Idle
    /\ call \in {Pending("update_post_title", [title |-> t, keyword |-> k, resp |-> g]) :
                    t \in Strings(MaxStr), k \in Strings(MaxStr), g \in TitleAnswers}

call_update_post_title ==
    /\ pc = "call"
    /\ call[1].method = "update_post_title"
    /\ ~call[1].returned
    /\ LET a == call[1].args
           r == update_post_title(a.title, a.keyword, a.resp)
       IN  call' = <<[call[1] EXCEPT !.returned = TRUE, !.result = Str(r.title),
                                     !.called = r.called]>>
    /\ UNCHANGED <<pc, remote, posts, page, fetched, idx, cms, report_data, log_data, last, files>>

NextTitle == call_update_post_title

SpecTitle == InitTitle /\ [][NextTitle]_vars

(***************************************************************************)
(* Properties.  `Seen` is the latest call of process_post: its post, the   *)
(* stored meta before it and its final locals.                             *)
(***************************************************************************)
Processed == last # <<>>
Seen == last[1]

\* one character is the other up to case
SameLetter(a, b) ==
    a = b \/ \E n \in 1..Len(UpperCase) : {a, b} = {UpperCase[n], LowerCase[n]}

\* needle occurs in hay up to case
InIgnoringCase(needle, hay) ==
    \E i \in 0..(Len(hay) - Len(needle)) :
        \A j \in 1..Len(needle) : SameLetter(hay[i + j], needle[j])

\* s without the whitespace at its two ends
Trimmed(s) ==
    LET solid == {i \in 1..Len(s) : s[i] \notin Whitespace}
    IN  IF solid = {} THEN <<>>
        ELSE SubSeq(s, CHOOSE i \in solid : \A k \in solid : i <= k,
                       CHOOSE i \in solid : \A k \in solid : i >= k)

\* the bag a request carries in its meta field
BagOf(q) == q.json.meta.value

(* C1: an item with no keyword and no description found, a backend that    *)
(* returns a non-empty keyword and a non-empty description, and two writes *)
(* answered 200.                                                           *)
C1_Case ==
    /\ Processed
    /\ LET L == Seen.locals
       IN  /\ ~L.existing.keyword_exists
           /\ ~L.existing.meta_description_exists
           /\ L.answers.keyword # <<>>
           /\ Truthy(generate_keyword(L.answers.keyword[1]))
           /\ L.answers.description # <<>>
           /\ Truthy(generate_meta_description(L.answers.description[1]))
           /\ L.answers.keyword_write = <<Http(200)>>
           /\ L.answers.update_write = <<Http(200)>>

(* C1: in that case process_post sends a metadata write whose bag has      *)
(* focus_keyword equal to the generated keyword, later a combined update   *)
(* whose meta bag has description equal to the generated description, and  *)
(* appends the item's Report Entry with both flags true.                   *)
C1_EndToEnd ==
    C1_Case =>
        LET L == Seen.locals
            keyword == generate_keyword(L.answers.keyword[1])
            description == generate_meta_description(L.answers.description[1])
            rq == L.requests
        IN  /\ \E i \in 1..Len(rq) : \E j \in (i + 1)..Len(rq) :
                  /\ rq[i].method = "POST"
                  /\ rq[i].post_id = Seen.post.id
                  /\ rq[i].json.has_meta /\ ~rq[i].json.has_title /\ ~rq[i].json.has_content
                  /\ BagOf(rq[i]).has_focus_keyword
                  /\ BagOf(rq[i]).focus_keyword = keyword
                  /\ rq[j].method = "POST"
                  /\ rq[j].post_id = Seen.post.id
                  /\ rq[j].json.has_meta
                  /\ BagOf(rq[j]).has_description
                  /\ BagOf(rq[j]).description = description
            /\ report_data # <<>>
            /\ report_data[Len(report_data)] = L.report_entry
            /\ L.report_entry.post_id = Seen.post.id
            /\ L.report_entry.meta_description_added
            /\ L.report_entry.keyword_added

C1_Witness == C1_Case

(* C2: the item's keyword and description exist, the description contains  *)
(* the keyword, and title and body contain it up to case.                  *)
C2_Case ==
    /\ Processed
    /\ LET L == Seen.locals
       IN  /\ L.existing.keyword_exists
           /\ L.existing.keyword.t = "str"
           /\ L.existing.meta_description_exists
           /\ L.existing.meta_description.t = "str"
           /\ Contains(L.existing.keyword.s, L.existing.meta_description.s)
           /\ InIgnoringCase(L.existing.keyword.s, Seen.post.title)
           /\ InIgnoringCase(L.existing.keyword.s, Seen.post.content)

(* C2: idempotence: for such an item process_post assembles an empty       *)
(* update payload and sends no POST, only reads.                           *)
C2_Idempotent ==
    C2_Case =>
        LET L == Seen.locals
        IN  /\ L.update_data = EmptyUpdate
            /\ \A i \in 1..Len(L.requests) : L.requests[i].method = "GET"

(* C3: a single item's failure never aborts the run: no exception of an    *)
(* item leaves run(), an exception caught for an item is logged against    *)
(* it, and a finished run has called process_post on every item and        *)
(* written the report and the error log.                                   *)
C3_NeverAborts ==
    /\ pc # "item raised"
    /\ (Processed /\ Seen.locals.raised =>
            \E i \in 1..Len(log_data) : log_data[i].post_id = Seen.post.id)
    /\ (pc = "done" => idx = Len(posts) + 1 /\ files.written = {"report", "log"})

(* C4: report_data holds exactly one entry for each item process_post was  *)
(* called on, in processing order, whatever happened to the item.          *)
C4_OneEntryPerItem ==
    pc \in {"process", "done"} =>
        /\ Len(report_data) = idx - 1
        /\ \A i \in 1..Len(report_data) : report_data[i].post_id = posts[i].id

(* C5: the backend raises during description synthesis for an item with    *)
(* no existing description.                                                *)
C5_Case ==
    /\ Processed
    /\ ~Seen.locals.existing.meta_description_exists
    /\ Seen.locals.answers.description = <<Raises>>

(* C5: then generate_meta_description returns None, the item's Report      *)
(* Entry is recorded with meta_description_added false, log_data holds a   *)
(* line with the item's id, and the run goes on.                           *)
C5_DescriptionFailure ==
    C5_Case =>
        LET L == Seen.locals
        IN  /\ L.meta_description = None
            /\ L.appended
            /\ report_data # <<>>
            /\ report_data[Len(report_data)].post_id = Seen.post.id
            /\ ~report_data[Len(report_data)].meta_description_added
            /\ \E i \in 1..Len(log_data) : log_data[i].post_id = Seen.post.id
            /\ pc \in {"process", "done"}

(* C8: the item has a description in schema A and the bag read has one in  *)
(* schema B.                                                               *)
C8_Case ==
    /\ Processed
    /\ Seen.post.yoast.present
    /\ Seen.post.yoast.has_description
    /\ Seen.locals.existing.rank_math_data.t = "dict"
    /\ Seen.locals.existing.rank_math_data.has_description

(* C8 as claimed: whenever both descriptions are present, schema A's value *)
(* is the existing description.                                            *)
C8_SchemaAPrecedence ==
    C8_Case =>
        LET e == Seen.locals.existing
        IN  /\ e.meta_description = Seen.post.yoast.description
            /\ e.meta_description_exists = Truthy(Seen.post.yoast.description)

(* C8 as amended: whenever both descriptions are present and schema A's is *)
(* not empty, schema A's value is the existing description, it exists, and *)
(* it is the one the keyword is looked for in: the description is          *)
(* generated again exactly when the existing keyword is not in schema A's  *)
(* lower-cased value.                                                      *)
C8_NonEmptySchemaAPrecedence ==
    C8_Case /\ Truthy(Seen.post.yoast.description) =>
        LET e == Seen.locals.existing
            a == Seen.post.yoast.description
        IN  /\ e.meta_description = a
            /\ e.meta_description_exists
            /\ (e.keyword_exists /\ e.keyword.t = "str" /\ a.t = "str" =>
                  (Seen.locals.answers.description = <<>>
                      <=> Contains(e.keyword.s, Lower(a.s))))

C8_Witness ==
    /\ C8_Case
    /\ Truthy(Seen.post.yoast.description)
    /\ Seen.locals.existing.rank_math_data.description # Seen.post.yoast.description
    /\ Seen.locals.existing.keyword_exists

(* C9: update_rank_math_keyword succeeded for the item and the combined    *)
(* update that carries meta was answered 200.                              *)
C9_Case ==
    /\ Processed
    /\ Seen.locals.report_entry.keyword_added
    /\ Seen.locals.update_data.has_meta
    /\ Seen.locals.answers.update_write = <<Http(200)>>

(* C9: then the bag the CMS stores for the item still has focus_keyword    *)
(* equal to the generated keyword, together with the new description.      *)
C9_KeywordSurvives ==
    C9_Case =>
        LET b == cms[Seen.post.id].value
        IN  /\ b.has_focus_keyword
            /\ b.focus_keyword = Seen.locals.keyword
            /\ b.has_description
            /\ b.description = Seen.locals.meta_description

(* C6: generate_meta_description has returned for a response text.         *)
C6_Case ==
    /\ call # <<>>
    /\ call[1].method = "generate_meta_description"
    /\ call[1].returned
    /\ ~call[1].args.resp.raises

(* C6: the result is at most 160 characters long; when the trimmed         *)
(* response is longer than 160 the result is 160 long, ends in "..." and   *)
(* starts with the first 157 characters of the trimmed response; otherwise *)
(* it is the trimmed response.                                             *)
C6_DescriptionLength ==
    C6_Case =>
        LET t == Trimmed(call[1].args.resp.text)
            r == call[1].result
        IN  /\ r.t = "str"
            /\ Len(r.s) <= 160
            /\ (Len(t) > 160 =>
                  /\ Len(r.s) = 160
                  /\ SubSeq(r.s, 158, 160) = <<".", ".", ".">>
                  /\ SubSeq(r.s, 1, 157) = SubSeq(t, 1, 157))
            /\ (Len(t) <= 160 => r.s = t)

C6_Witness == C6_Case /\ Len(Trimmed(call[1].args.resp.text)) > 160

(* C7: update_post_title has returned.                                     *)
C7_Case ==
    /\ call # <<>>
    /\ call[1].method = "update_post_title"
    /\ call[1].returned

(* C7: the result is the title or the trimmed response; it is the response *)
(* only if the response contains the keyword up to case; when the title    *)
(* contains the keyword up to case the backend is not called and the title *)
(* is returned.                                                            *)
C7_TitleInsertion ==
    C7_Case =>
        LET a == call[1].args
            r == call[1].result.s
            t == Trimmed(a.resp.text)
        IN  /\ call[1].result.t = "str"
            /\ (r = a.title \/ (~a.resp.raises /\ r = t))
            /\ (r # a.title => ~a.resp.raises /\ r = t /\ InIgnoringCase(a.keyword, t))
            /\ (InIgnoringCase(a.keyword, a.title) => ~call[1].called /\ r = a.title)

C7_Witness ==
    /\ C7_Case
    /\ call[1].result.s # call[1].args.title
    /\ call[1].args.keyword # Lower(call[1].args.keyword)

(* C10: the page the fetch stops at: the first one answered with an error, *)
(* an empty batch or fewer than 100 items.                                 *)
Stops(n) ==
    LET a == RemotePage(n) IN a.raises \/ a.status # 200 \/ Len(a.batch) < 100

LastPage == CHOOSE k \in 1..(MaxPages + 1) : Stops(k) /\ \A j \in 1..(k - 1) : ~Stops(j)

RECURSIVE Concatenated(_)
Concatenated(k) ==
    IF k = 0 THEN <<>>
    ELSE Concatenated(k - 1) \o
         (IF ~RemotePage(k).raises /\ RemotePage(k).status = 200
          THEN RemotePage(k).batch ELSE <<>>)

C10_Pages ==
    /\ \A i \in 1..Len(fetched) : fetched[i] = i /\ i <= LastPage
    /\ (pc = "process" => Len(fetched) = LastPage /\ posts = Concatenated(LastPage))
    /\ (pc = "fetch raised" => RemotePage(fetched[Len(fetched)]).raises)

(* C10: get_all_published_posts requests pages 1, 2, 3, ... up to the      *)
(* first page k that is an error, empty or partial and none after it,      *)
(* returns the batches of pages 1..k concatenated in order, raises only    *)
(* if a request raises, and ends.                                          *)
C10_Pagination == []C10_Pages /\ <>(pc # "fetch")

C10_Witness ==
    /\ pc = "process"
    /\ Len(fetched) >= 2
    /\ Len(posts) > 100
    /\ Len(posts) % 100 # 0

====
